---- MODULE Spec2Model ----
(***************************************************************************)
(* Model of combined_CSV_app.py: the dot-matrix rasterizer                 *)
(* (text_to_dot_matrix, generate_font_dict) and the process-wide glyph     *)
(* cache FONT_CACHE with its three request handlers (get_font_csv,         *)
(* get_cache, clear_cache).  The handlers run on the threads of the        *)
(* threaded development server; the source takes no lock, so a handler is  *)
(* modelled as a sequence of steps, one per dictionary operation or loop   *)
(* iteration, that other handlers may interleave with.                     *)
(***************************************************************************)
EXTENDS Integers, Sequences, FiniteSets, TLC

\* ------------------------------------------------------------- bounds
NumThreads == 2        \* concurrent request handlers
MaxGets == 2           \* /font.csv requests in one behaviour
MaxStats == 1          \* /cache requests in one behaviour
MaxClears == 1         \* /clear requests in one behaviour
MaxTextLen == 2        \* characters in one text parameter
MaxPointSize == 33     \* largest font_size handed to the engine directly
MaxSeqGets == 3        \* /font.csv requests in one behaviour, served one by one
MaxSeqStats == 2       \* /cache requests in one behaviour, served one by one
MaxSeqClears == 2      \* /clear requests in one behaviour, served one by one

Threads == 1 .. NumThreads

\* Characters of the requests.  "X" is a glyph the render capability fails on.
Chars == {"A", "X"}
\* Characters handed to the engine directly: "W" is wider than the canvas,
\* " " has an empty bounding box.
EngineChars == {"A", "W", " ", "X"}

\* size query parameters: two supported sizes and one unsupported
ReqSizes == {16, 32, 20}

RECURSIVE SeqsUpTo(_)
SeqsUpTo(n) ==
    IF n = 0 THEN {<<>>}
    ELSE LET S == SeqsUpTo(n - 1)
         IN  S \cup {Append(s, c) : s \in {q \in S : Len(q) = n - 1}, c \in Chars}

\* a batch with a repeated character and another one
BatchExample == <<"A", "A", "X">>

Texts == SeqsUpTo(MaxTextLen) \cup {BatchExample}

\* ------------------------------------------------------------- arithmetic
Min(a, b) == IF a < b THEN a ELSE b
Max(a, b) == IF a > b THEN a ELSE b

\* ------------------------------------------ external render capability (PIL)
\* Glyph outlines in sixteenths of the font size: origin offset and extent.
Glyph(text) ==
    CASE text = "A" -> [x0 |-> 1, y0 |-> 4, w |-> 10, h |-> 11]
      [] text = "W" -> [x0 |-> -1, y0 |-> 4, w |-> 19, h |-> 11]
      [] text = " " -> [x0 |-> 0, y0 |-> 0, w |-> 0, h |-> 0]
      [] OTHER      -> [x0 |-> 2, y0 |-> 3, w |-> 9, h |-> 12]

\* ImageFont.truetype(font_path, size), falling back to ImageFont.load_default()
LoadFont(fontOk, size) ==
    IF fontOk THEN [kind |-> "ttf", size |-> size]
    ELSE [kind |-> "default", size |-> 10]

\* draw.textbbox((0, 0), text, font=font) -> <<left, top, right, bottom>>
textbbox(text, font) ==
    LET g == Glyph(text)
        l == (font.size * g.x0) \div 16
        t == (font.size * g.y0) \div 16
    IN  <<l, t, l + (font.size * g.w) \div 16, t + (font.size * g.h) \div 16>>

\* ------------------------------------------------------------- the engine
\* a variant that scales by the inverse ratio
RescaledSize_Inverse(font_size, img_size, text_width, text_height) ==
    LET m == Max(Max(text_width, 1), Max(text_height, 1))
    IN  Max(8, (font_size * m * 9) \div (img_size * 10))

\* new_size = max(8, int(font_size * scale)) with
\* scale = min(img/max(w,1), img/max(h,1)) * 0.9, in exact arithmetic
RescaledSize(font_size, img_size, text_width, text_height) ==
    LET m == Max(Max(text_width, 1), Max(text_height, 1))
    IN  Max(8, (font_size * img_size * 9) \div (m * 10))

\* The font and bounding box the glyph is finally drawn with.
Measure(text, fontOk, font_size) ==
    LET img_size == font_size
        fs == IF fontOk THEN font_size ELSE Min(12, font_size)
        font == LoadFont(fontOk, font_size)
        bbox == textbbox(text, font)
        text_width == bbox[3] - bbox[1]
        text_height == bbox[4] - bbox[2]
    IN  IF text_width > img_size \/ text_height > img_size
        THEN LET new_size == RescaledSize(fs, img_size, text_width, text_height)
                 font2 == LoadFont(fontOk, new_size)
             IN  [rescaled |-> TRUE, new_size |-> new_size,
                  bbox |-> textbbox(text, font2)]
        ELSE [rescaled |-> FALSE, new_size |-> fs, bbox |-> bbox]

\* a variant that ignores the bounding box's own offset
Placement_NoOffset(img_size, bbox) ==
    [x |-> (img_size - (bbox[3] - bbox[1])) \div 2,
     y |-> (img_size - (bbox[4] - bbox[2])) \div 2]

\* x = (img_size - text_width) // 2 - bbox[0], and y likewise
Placement(img_size, bbox) ==
    [x |-> (img_size - (bbox[3] - bbox[1])) \div 2 - bbox[1],
     y |-> (img_size - (bbox[4] - bbox[2])) \div 2 - bbox[2]]

\* img.getpixel((px, py)) after draw.text((x, y), ...): the glyph fills its box
getpixel(px, py, img_size, at, bbox) ==
    /\ px >= 0 /\ px < img_size /\ py >= 0 /\ py < img_size
    /\ px >= at.x + bbox[1] /\ px < at.x + bbox[3]
    /\ py >= at.y + bbox[2] /\ py < at.y + bbox[4]

Pow2(n) ==
    CASE n = 0 -> 1 [] n = 1 -> 2 [] n = 2 -> 4 [] n = 3 -> 8
      [] n = 4 -> 16 [] n = 5 -> 32 [] n = 6 -> 64 [] OTHER -> 128

\* the inner loop over bit in range(8): byte |= 1 << (7 - bit) for each set
\* pixel x = x_start + bit with x < img_size
PackByte(x_start, y, img_size, at, bbox) ==
    LET Bit(bit) == IF x_start + bit < img_size
                       /\ getpixel(x_start + bit, y, img_size, at, bbox)
                    THEN Pow2(7 - bit) ELSE 0
    IN  Bit(0) + Bit(1) + Bit(2) + Bit(3) + Bit(4) + Bit(5) + Bit(6) + Bit(7)

\* range(0, img_size, 8) has this many elements
RowStarts(img_size) == (img_size + 7) \div 8

\* bytes_list: for y in range(img_size): for x_start in range(0, img_size, 8):
\* bytes_list.append(byte)
PackRows(img_size, at, bbox) ==
    LET perRow == RowStarts(img_size)
    IN  <<>> \o [k \in 1 .. (img_size * perRow) |->
                   PackByte(((k - 1) % perRow) * 8, (k - 1) \div perRow,
                            img_size, at, bbox)]

\* text_to_dot_matrix(text, font_path, font_size): the rendering calls of the
\* external capability raise for the glyphs in rc.failing
text_to_dot_matrix(text, rc, font_size) ==
    IF text \in rc.failing
    THEN [raised |-> TRUE, bytes |-> <<>>]
    ELSE LET m == Measure(text, rc.fontOk, font_size)
         IN  [raised |-> FALSE,
              bytes |-> PackRows(font_size, Placement(font_size, m.bbox), m.bbox)]

\* the all-zero substitute of the except branch: [0] * ((size * size) // 8)
BlankBytes(font_size) ==
    <<>> \o [k \in 1 .. ((font_size * font_size) \div 8) |-> 0]

\* one iteration of generate_font_dict's loop: result[char]
GlyphEntry(char, rc, font_size) ==
    LET r == text_to_dot_matrix(char, rc, font_size)
    IN  IF r.raised
        THEN [bytes |-> BlankBytes(font_size)]
        ELSE [bytes |-> r.bytes, char |-> char]

\* ------------------------------------------------------------- the cache
SupportedSizes == {16, 24, 32}

\* a variant that takes the size as it comes
NormalizeSize_Identity(size) == size

\* if size not in [16, 24, 32]: size = 16
NormalizeSize(size) == IF size \notin SupportedSizes THEN 16 ELSE size

\* a variant with one partition for all sizes
CacheKey_Shared(size) == "16"

\* cache_key = str(size)
CacheKey(size) ==
    CASE size = 16 -> "16" [] size = 24 -> "24" [] size = 32 -> "32"
      [] OTHER -> "other"

\* The render capability of the running server: the configured font loads
\* (the process exits at start-up otherwise) and "X" cannot be rendered.
ServerRC == [fontOk |-> TRUE, failing |-> {"X"}]

\* a variant that keeps every occurrence
UniqueChars_Identity(s) == s

\* set(s), as the sequence of its elements: first occurrences only.  The loops
\* over it take its elements in any order.
RECURSIVE UniqueChars(_)
UniqueChars(s) ==
    IF s = <<>> THEN <<>>
    ELSE LET front == UniqueChars(SubSeq(s, 1, Len(s) - 1))
             c == s[Len(s)]
         IN  IF \E k \in DOMAIN front : front[k] = c THEN front
             ELSE Append(front, c)

RemoveAt(s, j) == SubSeq(s, 1, j - 1) \o SubSeq(s, j + 1, Len(s))

\* a variant that never finds a character in the cache
IsMissing_Always(c, cache_dict) == TRUE

\* c not in cache
IsMissing(c, cache_dict) == c \notin DOMAIN cache_dict

\* char in cache and 'bytes' in cache[char]
HasBytes(char, cache_dict) ==
    /\ char \in DOMAIN cache_dict
    /\ "bytes" \in DOMAIN cache_dict[char]

\* padded[:bytes_per_char] with padded = raw_bytes + [0] * (bytes_per_char - len)
PaddedBytes(raw_bytes, size) ==
    LET bytes_per_char == (size * size) \div 8
    IN  <<>> \o [k \in 1 .. bytes_per_char |->
                   IF k <= Len(raw_bytes) THEN raw_bytes[k] ELSE 0]

\* a variant that writes the bytes of some cached entry, whatever the character
CsvRow_AnyEntry(char, cache_dict, size) ==
    [char |-> char,
     bytes |-> PaddedBytes(
                 cache_dict[CHOOSE c \in DOMAIN cache_dict : TRUE].bytes, size)]

\* writer.writerow([char] + padded[:bytes_per_char])
CsvRow(char, cache_dict, size) ==
    [char |-> char, bytes |-> PaddedBytes(cache_dict[char].bytes, size)]

\* a variant that stores nothing
DictUpdate_Dropped(cache_dict, new_fonts) == cache_dict

\* a variant that resets the entries the partition already holds
DictUpdate_Resetting(cache_dict, new_fonts) ==
    new_fonts @@ [c \in DOMAIN cache_dict |-> [bytes |-> <<>>]]

\* cache.update(new_fonts)
DictUpdate(cache_dict, new_fonts) == new_fonts @@ cache_dict

\* FONT_CACHE is an insertion-ordered dict: a sequence of [key, ref] items, ref
\* naming the partition dict on the heap.
HasKey(fc, key) == \E k \in DOMAIN fc : fc[k].key = key
KeyIndex(fc, key) == CHOOSE k \in DOMAIN fc : fc[k].key = key
GetItem(fc, key) == fc[KeyIndex(fc, key)].ref
SetItem(fc, key, ref) ==
    IF HasKey(fc, key)
    THEN [fc EXCEPT ![KeyIndex(fc, key)] = [key |-> key, ref |-> ref]]
    ELSE Append(fc, [key |-> key, ref |-> ref])

VARIABLES
    FONT_CACHE,    \* the global dict, as a sequence of [key, ref]
    heap,          \* live partition dicts: ref -> (char -> entry)
    th,            \* per thread: position and locals of its handler
    budget,        \* requests still to be issued, per kind
    engineCalls,   \* history: text_to_dot_matrix calls per key since the last clear
    requested,     \* history: get requests per key since (or across) the last clear
    served,        \* history: key -> bitmap first returned since the last clear
    response,      \* history: the response sent last, with what its handler saw
    initCache,     \* history: the cache contents the behaviour started from
    eng            \* a direct call of the engine: its inputs and result

vars == <<FONT_CACHE, heap, th, budget, engineCalls, requested, served,
          response, initCache, eng>>

Keys == SupportedSizes \X Chars
MaxObjs == Cardinality(SupportedSizes) + NumThreads
NoResponse == [kind |-> "none", op |-> "none", status |-> 0]

\* a thread between two requests
Idle ==
    [pc |-> "idle", op |-> "none", size |-> 0, chars_to_process |-> <<>>,
     cache |-> 0, pending |-> <<>>, missing_chars |-> <<>>, new_fonts |-> <<>>,
     i |-> 0, rows |-> <<>>, di_used |-> 0, di_pos |-> 0, cache_sizes |-> <<>>,
     total_chars |-> 0, hits |-> {}, calls |-> <<>>]

\* reference counting: a dict nobody refers to any more is freed
Collect(h, fc, thr) ==
    LET live == {fc[k].ref : k \in DOMAIN fc}
                  \cup {thr[t].cache : t \in Threads}
    IN  [r \in (DOMAIN h) \cap live |-> h[r]]

NewRef(h) == CHOOSE r \in 1 .. MaxObjs :
                /\ r \notin DOMAIN h
                /\ \A q \in 1 .. MaxObjs : q \notin DOMAIN h => r <= q

CharsOf(s) == {s[k] : k \in DOMAIN s}

\* the cache contents by value: key -> (char -> entry)
Contents(fc, h) ==
    [key \in {fc[k].key : k \in DOMAIN fc} |-> h[GetItem(fc, key)]]

EngIdle == [state |-> "none"]

Init ==
    /\ FONT_CACHE = <<>>
    /\ heap = <<>>
    /\ th = [t \in Threads |-> Idle]
    /\ budget = [get |-> MaxGets, stats |-> MaxStats, clear |-> MaxClears]
    /\ engineCalls = [k \in Keys |-> 0]
    /\ requested = [k \in Keys |-> 0]
    /\ served = <<>>
    /\ response = NoResponse
    /\ initCache = <<>>
    /\ eng = EngIdle

\* ------------------------------------------------------- GET /font.csv
\* a variant that lets every text through
Rejected_Never(text) == FALSE

\* line 110: if not text
Rejected(text) == text = <<>>

\* lines 106-117: parse the parameters, reject an empty text, normalize size;
\* the size parameter is one of `sizes`
get_font_csv_for(t, sizes) ==
    /\ th[t].pc = "idle"
    /\ budget.get > 0
    /\ \E size \in sizes, text \in Texts :
         IF Rejected(text)
         THEN /\ th' = [th EXCEPT ![t] = Idle]
              /\ response' = [kind |-> "error", op |-> "get", status |-> 400,
                              exc |-> "none"]
              /\ requested' = requested
         ELSE /\ th' = [th EXCEPT ![t] =
                          [Idle EXCEPT
                             !.pc = "L121", !.op = "get",
                             !.size = NormalizeSize(size),
                             !.chars_to_process = text]]
              /\ response' = response
              /\ requested' =
                   [k \in Keys |->
                      IF k[1] = NormalizeSize(size) /\ k[2] \in CharsOf(text)
                      THEN requested[k] + 1 ELSE requested[k]]
    /\ budget' = [budget EXCEPT !.get = @ - 1]
    /\ UNCHANGED <<FONT_CACHE, heap, engineCalls, served, initCache, eng>>

get_font_csv(t) == get_font_csv_for(t, ReqSizes)

\* cache_key not in FONT_CACHE
NeedsPartition(fc, cache_key) == ~HasKey(fc, cache_key)

\* line 121: if cache_key not in FONT_CACHE
HasPartition(t) ==
    /\ th[t].pc = "L121"
    /\ th' = [th EXCEPT ![t].pc =
                IF NeedsPartition(FONT_CACHE, CacheKey(th[t].size))
                THEN "L122" ELSE "L123"]
    /\ UNCHANGED <<response, FONT_CACHE, heap, budget, engineCalls, requested, served,
                   initCache, eng>>

\* line 122: FONT_CACHE[cache_key] = {}
CreatePartition(t) ==
    /\ th[t].pc = "L122"
    /\ LET r == NewRef(heap)
       IN  /\ FONT_CACHE' = SetItem(FONT_CACHE, CacheKey(th[t].size), r)
           /\ th' = [th EXCEPT ![t].pc = "L123"]
           /\ heap' = Collect((r :> <<>>) @@ heap, FONT_CACHE', th')
    /\ UNCHANGED <<response, budget, engineCalls, requested, served, initCache, eng>>

\* line 123: cache = FONT_CACHE[cache_key]; a missing key raises KeyError,
\* which the framework answers with status 500
LookupPartition(t) ==
    /\ th[t].pc = "L123"
    /\ IF HasKey(FONT_CACHE, CacheKey(th[t].size))
       THEN /\ th' = [th EXCEPT ![t] =
                     [@ EXCEPT !.pc = "L126",
                               !.cache = GetItem(FONT_CACHE, CacheKey(th[t].size)),
                               !.pending = UniqueChars(th[t].chars_to_process)]]
            /\ response' = response
       ELSE /\ th' = [th EXCEPT ![t] = Idle]
            /\ response' = [kind |-> "error", op |-> "get", status |-> 500,
                            exc |-> "KeyError"]
    /\ heap' = Collect(heap, FONT_CACHE, th')
    /\ UNCHANGED <<FONT_CACHE, budget, engineCalls, requested, served,
                   initCache, eng>>

\* line 126, one element of the comprehension:
\* missing_chars = [c for c in set(chars_to_process) if c not in cache];
\* after the last one, line 127: if missing_chars
FindMissing(t) ==
    /\ th[t].pc = "L126"
    /\ \E j \in DOMAIN th[t].pending :
         LET c == th[t].pending[j]
             d == heap[th[t].cache]
             rest == RemoveAt(th[t].pending, j)
             miss == IF IsMissing(c, d) THEN Append(th[t].missing_chars, c)
                     ELSE th[t].missing_chars
             hit == IF c \in DOMAIN d THEN th[t].hits \cup {c} ELSE th[t].hits
         IN  th' = [th EXCEPT ![t] =
                      IF rest # <<>>
                      THEN [@ EXCEPT !.pending = rest, !.missing_chars = miss,
                                     !.hits = hit]
                      ELSE IF miss # <<>>
                      THEN [@ EXCEPT !.pc = "L129", !.pending = <<>>,
                                     !.missing_chars = miss, !.hits = hit]
                      ELSE [@ EXCEPT !.pc = "L139", !.pending = <<>>, !.i = 1,
                                     !.hits = hit]]
    /\ UNCHANGED <<response, FONT_CACHE, heap, budget, engineCalls, requested, served,
                   initCache, eng>>

\* The entries generate_font_dict makes with the server's font, per key.
ServerGlyphs == {<<k, GlyphEntry(k[2], ServerRC, k[1])>> : k \in Keys}

ServerGlyph(font_size, char) ==
    (CHOOSE p \in ServerGlyphs : p[1] = <<font_size, char>>)[2]

\* a variant in which a rendering failure ends the loop over the characters
FontDict_Abort(unique_chars, font_size) ==
    LET stop == {k \in DOMAIN unique_chars : unique_chars[k] \in ServerRC.failing}
        done == IF stop = {} THEN Len(unique_chars)
                ELSE (CHOOSE k \in stop : \A j \in stop : k <= j) - 1
    IN  [c \in {unique_chars[k] : k \in 1 .. done} |-> ServerGlyph(font_size, c)]

\* generate_font_dict(input_str, FONT_PATH, font_size), lines 84-98: the dict
\* built by the loop over unique_chars = set(input_str), front to back
RECURSIVE FontDict(_, _)
FontDict(unique_chars, font_size) ==
    IF unique_chars = <<>> THEN <<>>
    ELSE (unique_chars[Len(unique_chars)] :>
             ServerGlyph(font_size, unique_chars[Len(unique_chars)]))
         @@ FontDict(SubSeq(unique_chars, 1, Len(unique_chars) - 1), font_size)

\* how often a sequence holds c
RECURSIVE Count(_, _)
Count(s, c) ==
    IF s = <<>> THEN 0
    ELSE (IF s[1] = c THEN 1 ELSE 0) + Count(Tail(s), c)

\* line 129: new_fonts = generate_font_dict(''.join(missing_chars), ...).  The
\* call reads and writes locals only, so it is one step; each element of
\* unique_chars is one call of text_to_dot_matrix.
generate_font_dict(t) ==
    /\ th[t].pc = "L129"
    /\ LET unique_chars == UniqueChars(th[t].missing_chars)
       IN  /\ th' = [th EXCEPT ![t] =
                       [@ EXCEPT
                          !.pc = "L130",
                          !.new_fonts = FontDict(unique_chars, th[t].size),
                          !.calls = unique_chars]]
           /\ engineCalls' =
                [k \in Keys |->
                   IF k[1] = th[t].size
                   THEN engineCalls[k] + Count(unique_chars, k[2])
                   ELSE engineCalls[k]]
    /\ UNCHANGED <<response, FONT_CACHE, heap, budget, requested, served, initCache, eng>>

\* line 130: cache.update(new_fonts)
CacheUpdate(t) ==
    /\ th[t].pc = "L130"
    /\ heap' = [heap EXCEPT ![th[t].cache] = DictUpdate(@, th[t].new_fonts)]
    /\ th' = [th EXCEPT ![t] =
                [@ EXCEPT !.pc = "L139", !.i = 1, !.new_fonts = <<>>]]
    /\ UNCHANGED <<response, FONT_CACHE, budget, engineCalls, requested, served,
                   initCache, eng>>

\* the bitmap first returned for each key since the last clear
Serve(sv, size, rows) ==
    LET new == {<<size, rows[n].char>> : n \in DOMAIN rows}
    IN  [k \in (DOMAIN sv) \cup new |->
           IF k \in DOMAIN sv THEN sv[k]
           ELSE rows[CHOOSE n \in DOMAIN rows : rows[n].char = k[2]].bytes]

\* lines 139-143, one iteration of the loop over chars_to_process; after the
\* last one, lines 145-155: the response
WriteRow(t) ==
    /\ th[t].pc = "L139"
    /\ LET char == th[t].chars_to_process[th[t].i]
           d == heap[th[t].cache]
           rows == IF HasBytes(char, d)
                   THEN Append(th[t].rows, CsvRow(char, d, th[t].size))
                   ELSE th[t].rows
       IN  IF th[t].i < Len(th[t].chars_to_process)
           THEN /\ th' = [th EXCEPT ![t] = [@ EXCEPT !.i = @ + 1, !.rows = rows]]
                /\ UNCHANGED <<heap, served, response>>
           ELSE /\ th' = [th EXCEPT ![t] = Idle]
                /\ response' = [kind |-> "csv", op |-> "get", status |-> 200,
                                size |-> th[t].size,
                                text |-> th[t].chars_to_process,
                                rows |-> rows, hits |-> th[t].hits,
                                calls |-> th[t].calls]
                /\ served' = Serve(served, th[t].size, rows)
                /\ heap' = Collect(heap, FONT_CACHE, th')
    /\ UNCHANGED <<FONT_CACHE, budget, engineCalls, requested, initCache, eng>>

\* ----------------------------------------------------------- GET /cache
\* a variant that makes sure the partition "16" exists before it reports
get_cache_Creating(t) ==
    /\ th[t].pc = "idle"
    /\ budget.stats > 0
    /\ budget' = [budget EXCEPT !.stats = @ - 1]
    /\ FONT_CACHE' = IF HasKey(FONT_CACHE, "16") THEN FONT_CACHE
                     ELSE SetItem(FONT_CACHE, "16", NewRef(heap))
    /\ heap' = IF HasKey(FONT_CACHE, "16") THEN heap
               ELSE (NewRef(heap) :> <<>>) @@ heap
    /\ th' = [th EXCEPT ![t] =
                [Idle EXCEPT !.pc = "L173", !.op = "stats",
                             !.di_used = Len(FONT_CACHE'), !.di_pos = 1]]
    /\ UNCHANGED <<engineCalls, requested, served, response, initCache, eng>>

\* line 173 starts: FONT_CACHE.items() is iterated from its first item
get_cache(t) ==
    /\ th[t].pc = "idle"
    /\ budget.stats > 0
    /\ budget' = [budget EXCEPT !.stats = @ - 1]
    /\ th' = [th EXCEPT ![t] =
                [Idle EXCEPT !.pc = "L173", !.op = "stats",
                             !.di_used = Len(FONT_CACHE), !.di_pos = 1]]
    /\ UNCHANGED <<FONT_CACHE, heap, engineCalls, requested, served, response,
                   initCache, eng>>

\* next() of a dict iterator created when the dict had di_used items and now at
\* item di_pos: RuntimeError when the dict's size has changed, else the item or
\* the end
IterNext(fc, di_used, di_pos) ==
    IF Len(fc) # di_used THEN "RuntimeError"
    ELSE IF di_pos > Len(fc) THEN "stop" ELSE "item"

\* line 173, one step of {k: len(v) for k, v in FONT_CACHE.items()}
CacheSizes(t) ==
    /\ th[t].pc = "L173"
    /\ LET nxt == IterNext(FONT_CACHE, th[t].di_used, th[t].di_pos)
           item == FONT_CACHE[th[t].di_pos]
       IN  IF nxt = "RuntimeError"
           THEN /\ th' = [th EXCEPT ![t] = Idle]
                /\ response' = [kind |-> "error", op |-> "stats", status |-> 500,
                                exc |-> "RuntimeError"]
           ELSE /\ response' = response
                /\ th' = [th EXCEPT ![t] =
                            IF nxt = "stop"
                            THEN [@ EXCEPT !.pc = "L174", !.di_pos = 0]
                            ELSE [@ EXCEPT
                                    !.di_pos = @ + 1,
                                    !.cache_sizes =
                                       (item.key :> Cardinality(DOMAIN heap[item.ref]))
                                       @@ @]]
    /\ UNCHANGED <<FONT_CACHE, heap, budget, engineCalls, requested, served,
                   initCache, eng>>

\* line 174, one step of sum(len(v) for v in FONT_CACHE.values()); the first
\* step creates the iterator, the last one builds the response
TotalChars(t) ==
    /\ th[t].pc = "L174"
    /\ LET nxt == IterNext(FONT_CACHE, th[t].di_used, th[t].di_pos)
           item == FONT_CACHE[th[t].di_pos]
       IN  IF th[t].di_pos = 0
           THEN /\ th' = [th EXCEPT ![t] =
                            [@ EXCEPT !.di_used = Len(FONT_CACHE), !.di_pos = 1]]
                /\ response' = response
           ELSE IF nxt = "RuntimeError"
           THEN /\ th' = [th EXCEPT ![t] = Idle]
                /\ response' = [kind |-> "error", op |-> "stats", status |-> 500,
                                exc |-> "RuntimeError"]
           ELSE IF nxt = "stop"
           THEN /\ th' = [th EXCEPT ![t] = Idle]
                /\ response' = [kind |-> "stats", op |-> "stats", status |-> 200,
                                cache_sizes |-> th[t].cache_sizes,
                                total_chars |-> th[t].total_chars]
           ELSE /\ th' = [th EXCEPT ![t] =
                            [@ EXCEPT
                               !.di_pos = @ + 1,
                               !.total_chars =
                                  @ + Cardinality(DOMAIN heap[item.ref])]]
                /\ response' = response
    /\ UNCHANGED <<FONT_CACHE, heap, budget, engineCalls, requested, served,
                   initCache, eng>>

\* ---------------------------------------------------------- POST /clear
\* get requests under way that ask for key k
InFlight(thr, k) ==
    Cardinality({t \in Threads :
                   /\ thr[t].op = "get"
                   /\ thr[t].size = k[1]
                   /\ k[2] \in CharsOf(thr[t].chars_to_process)})

\* a variant that leaves all partitions but the first in place
DictClear_FirstOnly(fc) == IF fc = <<>> THEN <<>> ELSE Tail(fc)

\* FONT_CACHE.clear()
DictClear(fc) == <<>>

\* line 180: FONT_CACHE.clear()
clear_cache(t) ==
    /\ th[t].pc = "idle"
    /\ budget.clear > 0
    /\ budget' = [budget EXCEPT !.clear = @ - 1]
    /\ FONT_CACHE' = DictClear(FONT_CACHE)
    /\ th' = [th EXCEPT ![t] = Idle]
    /\ response' = [kind |-> "cleared", op |-> "clear", status |-> 200]
    /\ heap' = Collect(heap, FONT_CACHE', th')
    /\ engineCalls' = [k \in Keys |-> 0]
    /\ requested' = [k \in Keys |-> InFlight(th, k)]
    /\ served' = <<>>
    /\ UNCHANGED <<initCache, eng>>

\* ------------------------------------------------------- specifications
Step(t) ==
    \/ get_font_csv(t) \/ HasPartition(t) \/ CreatePartition(t)
    \/ LookupPartition(t) \/ FindMissing(t) \/ generate_font_dict(t)
    \/ CacheUpdate(t) \/ WriteRow(t)
    \/ get_cache(t) \/ CacheSizes(t) \/ TotalChars(t)
    \/ clear_cache(t)

\* the handlers of concurrent requests interleave
Next == \E t \in Threads : Step(t)

Spec == Init /\ [][Next]_vars

\* Requests served one at a time: a single thread handles each to its end.
InitSeq ==
    /\ FONT_CACHE = <<>>
    /\ heap = <<>>
    /\ th = [t \in Threads |-> Idle]
    /\ budget = [get |-> MaxSeqGets, stats |-> MaxSeqStats, clear |-> MaxSeqClears]
    /\ engineCalls = [k \in Keys |-> 0]
    /\ requested = [k \in Keys |-> 0]
    /\ served = <<>>
    /\ response = NoResponse
    /\ initCache = <<>>
    /\ eng = EngIdle

NextSeq == Step(1)

SpecSeq == InitSeq /\ [][NextSeq]_vars

\* One get request and one clear, on a cache that earlier requests filled.
\* parts: a sequence of [size, chars], one per partition, in insertion order
FilledCache(parts) ==
    [fc |-> [i \in DOMAIN parts |-> [key |-> CacheKey(parts[i].size), ref |-> i]],
     heap |-> [i \in DOMAIN parts |->
                 [c \in parts[i].chars |-> ServerGlyph(parts[i].size, c)]]]

FilledCaches ==
    LET sizes == {<<>>, <<16>>, <<32>>, <<16, 32>>, <<32, 16>>}
        fills == (SUBSET Chars) \ {{}}
    IN  {FilledCache([i \in DOMAIN sz |-> [size |-> sz[i], chars |-> f[i]]]) :
            sz \in sizes, f \in [1 .. 2 -> fills]}

InitGetClear ==
    /\ \E c \in FilledCaches :
         /\ FONT_CACHE = c.fc
         /\ heap = c.heap
         /\ initCache = Contents(c.fc, c.heap)
         /\ engineCalls =
              [k \in Keys |->
                 IF CacheKey(k[1]) \in DOMAIN initCache
                    /\ k[2] \in DOMAIN initCache[CacheKey(k[1])] THEN 1 ELSE 0]
    /\ requested = engineCalls
    /\ served = <<>>
    /\ th = [t \in Threads |-> Idle]
    /\ budget = [get |-> 1, stats |-> 0, clear |-> 1]
    /\ response = NoResponse
    /\ eng = EngIdle

NextGetClear ==
    \E t \in Threads :
        \/ get_font_csv(t) \/ HasPartition(t) \/ CreatePartition(t)
        \/ LookupPartition(t) \/ FindMissing(t) \/ generate_font_dict(t)
        \/ CacheUpdate(t) \/ WriteRow(t)
        \/ clear_cache(t)

SpecGetClear == InitGetClear /\ [][NextGetClear]_vars

\* A direct call of the engine for one character: any positive size, a font
\* that loads or not, a glyph that renders or not.
InitEngine ==
    /\ FONT_CACHE = <<>>
    /\ heap = <<>>
    /\ th = [t \in Threads |-> Idle]
    /\ budget = [get |-> 0, stats |-> 0, clear |-> 0]
    /\ engineCalls = [k \in Keys |-> 0]
    /\ requested = [k \in Keys |-> 0]
    /\ served = <<>>
    /\ response = NoResponse
    /\ initCache = <<>>
    /\ \E char \in EngineChars, font_size \in 1 .. MaxPointSize,
          fontOk \in BOOLEAN, fails \in BOOLEAN :
         eng = [state |-> "call", char |-> char, font_size |-> font_size,
                rc |-> [fontOk |-> fontOk,
                        failing |-> IF fails THEN {char} ELSE {}],
                entry |-> <<>>, raised |-> FALSE, measure |-> <<>>, at |-> <<>>]

\* generate_font_dict(char, font_path, font_size)[char], with the font size,
\* bounding box and position text_to_dot_matrix drew the glyph with
Rasterize ==
    /\ eng.state = "call"
    /\ LET raised == text_to_dot_matrix(eng.char, eng.rc, eng.font_size).raised
           m == Measure(eng.char, eng.rc.fontOk, eng.font_size)
       IN  eng' = [eng EXCEPT
                     !.state = "done",
                     !.entry = GlyphEntry(eng.char, eng.rc, eng.font_size),
                     !.raised = raised,
                     !.measure = IF raised THEN <<>> ELSE m,
                     !.at = IF raised THEN <<>>
                            ELSE Placement(eng.font_size, m.bbox)]
    /\ UNCHANGED <<FONT_CACHE, heap, th, budget, engineCalls, requested, served,
                   response, initCache>>

NextEngine == Rasterize

SpecEngine == InitEngine /\ [][NextEngine]_vars

\* A cache that earlier requests filled; then requests served one at a time.
InitClear ==
    /\ \E c \in FilledCaches :
         /\ FONT_CACHE = c.fc
         /\ heap = c.heap
         /\ initCache = Contents(c.fc, c.heap)
         /\ engineCalls =
              [k \in Keys |->
                 IF CacheKey(k[1]) \in DOMAIN initCache
                    /\ k[2] \in DOMAIN initCache[CacheKey(k[1])] THEN 1 ELSE 0]
    /\ requested = engineCalls
    /\ served = <<>>
    /\ th = [t \in Threads |-> Idle]
    /\ budget = [get |-> 1, stats |-> 1, clear |-> 1]
    /\ response = NoResponse
    /\ eng = EngIdle

SpecClear == InitClear /\ [][NextSeq]_vars

\* size query parameters outside [16, 24, 32]
OtherSizes == {0, 20, 48}

\* A cache that earlier requests filled; then requests with unsupported sizes,
\* served one at a time.
InitNorm ==
    /\ \E c \in FilledCaches :
         /\ FONT_CACHE = c.fc
         /\ heap = c.heap
         /\ initCache = Contents(c.fc, c.heap)
         /\ engineCalls =
              [k \in Keys |->
                 IF CacheKey(k[1]) \in DOMAIN initCache
                    /\ k[2] \in DOMAIN initCache[CacheKey(k[1])] THEN 1 ELSE 0]
    /\ requested = engineCalls
    /\ served = <<>>
    /\ th = [t \in Threads |-> Idle]
    /\ budget = [get |-> 2, stats |-> 0, clear |-> 0]
    /\ response = NoResponse
    /\ eng = EngIdle

NextNorm ==
    \/ get_font_csv_for(1, OtherSizes) \/ HasPartition(1) \/ CreatePartition(1)
    \/ LookupPartition(1) \/ FindMissing(1) \/ generate_font_dict(1)
    \/ CacheUpdate(1) \/ WriteRow(1)

SpecNorm == InitNorm /\ [][NextNorm]_vars

\* ------------------------------------------------------------- properties
\* len(Bitmap) the data model requires: ceil(pointSize / 8) * pointSize
BitmapLen(pointSize) == ((pointSize + 7) \div 8) * pointSize

AllZero(bytes) == \A k \in DOMAIN bytes : bytes[k] = 0

\* the chars of a response's text that were cached when the request started
\* from the initial cache
HitsBefore(resp) ==
    IF CacheKey(resp.size) \in DOMAIN initCache
    THEN CharsOf(resp.text) \cap DOMAIN initCache[CacheKey(resp.size)]
    ELSE {}

\* C1: served one at a time, once a get for a key has completed, every later
\* get for the key returns the bitmap first returned and the engine has still
\* been invoked exactly once for the key, until the next clear.
C1_Memoization ==
    /\ \A k \in DOMAIN served : engineCalls[k] = 1
    /\ response.kind = "csv" =>
         \A n \in DOMAIN response.rows :
            <<response.size, response.rows[n].char>> \in DOMAIN served =>
               response.rows[n].bytes =
                  served[<<response.size, response.rows[n].char>>]

\* a later get has been answered from the cache for a key served before
C1_Witness ==
    /\ response.kind = "csv"
    /\ response.hits # {}
    /\ response.calls = <<>>
    /\ \A c \in response.hits : <<response.size, c>> \in DOMAIN served

\* C2 (as claimed): between two clears the engine is invoked at most once per
\* key, over all interleavings of request handlers.
C2_AtMostOncePerKey == \A k \in Keys : engineCalls[k] <= 1

\* C2 (amended): concurrent misses on a key are not coalesced, but the engine
\* is invoked for a key at most once per get request that asks for it.
C2_OncePerRequest == \A k \in Keys : engineCalls[k] <= requested[k]

\* two requests have both rasterized the same key
C2_Witness == \E k \in Keys : engineCalls[k] = 2 /\ requested[k] = 2

\* C3: a get that runs concurrently with one clear behaves as if it ran wholly
\* before the clear (it hits what the cache held, and the cache ends empty) or
\* wholly after it (it hits nothing, and the cache ends holding its inserts).
C3_ClearAtomic ==
    (response.op = "get" /\ response.status # 400) =>
       /\ response.kind = "csv"
       /\ IF budget.clear > 0
          THEN response.hits = HitsBefore(response)
          ELSE \/ /\ response.hits = HitsBefore(response)
                  /\ FONT_CACHE = <<>>
               \/ /\ response.hits = {}
                  /\ Contents(FONT_CACHE, heap) =
                       (CacheKey(response.size) :>
                          [c \in CharsOf(response.text) |->
                             ServerGlyph(response.size, c)])

\* C4: no operation ends with an internal error, whatever the interleaving.
C4_NoInternalError == response.status # 500

\* C5: every character of a get's text has a bitmap in the result.
C5_NeverNotFound ==
    response.kind = "csv" =>
       \A c \in CharsOf(response.text) :
          \E n \in DOMAIN response.rows :
             /\ response.rows[n].char = c
             /\ Len(response.rows[n].bytes) = BitmapLen(response.size)

\* a result with a freshly rasterized character, a cached one and the
\* all-zero substitute
C5_Witness ==
    /\ response.kind = "csv"
    /\ response.hits # {}
    /\ response.calls # <<>>
    /\ \E n \in DOMAIN response.rows : AllZero(response.rows[n].bytes)

\* C6: a batch result has one bitmap per input position, in input order, each
\* the bitmap of the character at its position; equal characters have equal
\* bitmaps.
C6_BatchOrder ==
    response.kind = "csv" =>
       /\ Len(response.rows) = Len(response.text)
       /\ \A n \in DOMAIN response.rows :
             /\ response.rows[n].char = response.text[n]
             /\ response.rows[n].bytes =
                  ServerGlyph(response.size, response.text[n]).bytes
       /\ \A n, m \in DOMAIN response.rows :
             response.text[n] = response.text[m] =>
                response.rows[n].bytes = response.rows[m].bytes

\* the batch "AAX" has been answered
C6_Witness ==
    /\ response.kind = "csv"
    /\ response.text = BatchExample
    /\ Len(response.rows) = 3

\* C7: one call rasterizes each missing character of its text exactly once and
\* no character that was cached when the call looked it up.
C7_OncePerBatch ==
    response.kind = "csv" =>
       /\ \A c \in CharsOf(response.text) :
             Count(response.calls, c) = IF c \in response.hits THEN 0 ELSE 1
       /\ CharsOf(response.calls) \subseteq CharsOf(response.text)

\* a batch with a repeated missing character and a cached one
C7_Witness ==
    /\ response.kind = "csv"
    /\ \E c \in CharsOf(response.text) :
          /\ Count(response.text, c) >= 2
          /\ Count(response.calls, c) = 1
    /\ response.hits # {}

\* the partition size a cache key stands for
SizeOfKey(key) == CHOOSE size \in SupportedSizes : CacheKey(size) = key

\* C8: served one at a time, a character that fails to rasterize resolves to
\* all zeros, the request still succeeds, the other characters of the batch
\* get their normal bitmaps, and the cached entries of other keys stay intact.
C8_FailureIsolation ==
    /\ response.op = "get" => response.status \in {200, 400}
    /\ response.kind = "csv" =>
         /\ Len(response.rows) = Len(response.text)
         /\ \A n \in DOMAIN response.rows :
               IF response.rows[n].char \in ServerRC.failing
               THEN /\ AllZero(response.rows[n].bytes)
                    /\ Len(response.rows[n].bytes) = BitmapLen(response.size)
               ELSE /\ ~AllZero(response.rows[n].bytes)
                    /\ response.rows[n].bytes =
                         ServerGlyph(response.size, response.rows[n].char).bytes
    /\ \A k \in DOMAIN FONT_CACHE :
          \A c \in DOMAIN heap[FONT_CACHE[k].ref] :
             c \notin ServerRC.failing =>
                heap[FONT_CACHE[k].ref][c] =
                   ServerGlyph(SizeOfKey(FONT_CACHE[k].key), c)

\* one batch has rasterized a failing and a rendering character
C8_Witness ==
    /\ response.kind = "csv"
    /\ \E c \in CharsOf(response.calls) : c \in ServerRC.failing
    /\ \E c \in CharsOf(response.calls) : c \notin ServerRC.failing

\* C9: every bitmap the engine produces for a positive pointSize, rasterized or
\* the all-zero substitute, has ceil(pointSize / 8) * pointSize bytes.
C9_LengthInvariant ==
    eng.state = "done" =>
       Len(eng.entry.bytes) = BitmapLen(eng.font_size)

\* C10: served one at a time on a filled cache, after clear the cache is
\* empty, stats reports no partition and zero entries, and the next get hits
\* nothing and rasterizes every character of its text.
C10_ClearWipes ==
    budget.clear = 0 =>
       /\ (\A k \in Keys : requested[k] = 0) => FONT_CACHE = <<>>
       /\ response.kind = "stats" /\ (\A k \in Keys : requested[k] = 0) =>
             /\ response.total_chars = 0
             /\ response.cache_sizes = <<>>
       /\ response.kind = "csv" =>
             /\ response.hits = {}
             /\ \A c \in CharsOf(response.text) : Count(response.calls, c) = 1

\* entries at sizes 16 and 32 were cleared, stats ran, and a get for a key
\* cached before the clear has been answered
C10_Witness ==
    /\ budget.clear = 0
    /\ budget.stats = 0
    /\ DOMAIN initCache = {"16", "32"}
    /\ response.kind = "csv"
    /\ HitsBefore(response) # {}

\* the count a stats result reports for a partition, 0 when it lists none
Reported(cache_sizes, key) ==
    IF key \in DOMAIN cache_sizes THEN cache_sizes[key] ELSE 0

\* C11: served one at a time, a get hits a character only if the same size
\* asked for it before (an entry of another size never satisfies it), its rows
\* are the bitmaps of its own size, and stats counts per size the characters
\* rasterized at that size.
C11_SizeIsolation ==
    /\ response.kind = "csv" =>
         /\ \A c \in response.hits : requested[<<response.size, c>>] >= 2
         /\ \A n \in DOMAIN response.rows :
               response.rows[n].bytes =
                  ServerGlyph(response.size, response.rows[n].char).bytes
    /\ (response.kind = "stats" /\ \A t \in Threads : th[t].pc = "idle") =>
         \A size \in SupportedSizes :
            Reported(response.cache_sizes, CacheKey(size)) =
               Cardinality({c \in Chars : engineCalls[<<size, c>>] >= 1})

\* "A" was rasterized at 16 and again at 32, and stats lists one entry in each
\* of the two partitions
C11_Witness ==
    /\ response.kind = "stats"
    /\ \A t \in Threads : th[t].pc = "idle"
    /\ engineCalls[<<16, "A">>] = 1
    /\ engineCalls[<<32, "A">>] = 1
    /\ Reported(response.cache_sizes, "16") = 1
    /\ Reported(response.cache_sizes, "32") = 1

\* C12: a step that is not a clear removes no key from the cache, in every
\* interleaving of request handlers.
C12_NoEviction ==
    [][budget'.clear = budget.clear =>
         \A key \in DOMAIN Contents(FONT_CACHE, heap) :
            /\ key \in DOMAIN Contents(FONT_CACHE', heap')
            /\ DOMAIN Contents(FONT_CACHE, heap)[key]
                  \subseteq DOMAIN Contents(FONT_CACHE', heap')[key]]_vars

\* C13 (as claimed): no get stores an entry for a character its partition
\* already holds.
C13_NeverOverwritten ==
    [][\A t \in Threads :
         (th[t].pc = "L130" /\ th'[t].pc # "L130") =>
            DOMAIN th[t].new_fonts \cap DOMAIN heap[th[t].cache] = {}]_vars

\* C13 (amended): the entry the cache holds for a key never changes in value
\* while the key is present, whatever the handlers do.
C13_ValueStable ==
    [][\A key \in DOMAIN Contents(FONT_CACHE, heap)
                     \cap DOMAIN Contents(FONT_CACHE', heap') :
         \A c \in DOMAIN Contents(FONT_CACHE, heap)[key]
                     \cap DOMAIN Contents(FONT_CACHE', heap')[key] :
            Contents(FONT_CACHE', heap')[key][c] =
               Contents(FONT_CACHE, heap)[key][c]]_vars

\* two handlers that both missed on a character have both stored it in the
\* same partition, which is still the cache's
C13_Witness ==
    \E t1, t2 \in Threads :
       /\ t1 # t2
       /\ th[t1].pc = "L139" /\ th[t2].pc = "L139"
       /\ th[t1].cache = th[t2].cache
       /\ HasKey(FONT_CACHE, CacheKey(th[t1].size))
       /\ GetItem(FONT_CACHE, CacheKey(th[t1].size)) = th[t1].cache
       /\ \E c \in CharsOf(th[t1].calls) \cap CharsOf(th[t2].calls) :
             heap[th[t1].cache][c] = ServerGlyph(th[t1].size, c)

\* C14: no step of a stats request changes the cache: no partition is created
\* and no entry is added or removed, in any cache state.
C14_StatsReadOnly ==
    [][(\/ budget'.stats # budget.stats
        \/ \E t \in Threads : th[t].op = "stats" /\ th'[t] # th[t]) =>
          /\ FONT_CACHE' = FONT_CACHE
          /\ heap' = heap]_vars

\* stats has reported on a cache that holds entries, and the cache still
\* holds what it reported
C14_Witness ==
    /\ response.kind = "stats"
    /\ response.total_chars > 0
    /\ \A key \in DOMAIN response.cache_sizes :
          /\ HasKey(FONT_CACHE, key)
          /\ Cardinality(DOMAIN heap[GetItem(FONT_CACHE, key)]) =
                response.cache_sizes[key]

\* the sum of the per-size counts of a stats result
SumSizes(cache_sizes) ==
    Reported(cache_sizes, "16") + Reported(cache_sizes, "24")
       + Reported(cache_sizes, "32")

\* C15: the total a stats result reports is the sum of the per-size counts it
\* reports, also when gets and clears run concurrently.
C15_ConsistentSnapshot ==
    response.kind = "stats" =>
       response.total_chars = SumSizes(response.cache_sizes)

\* C16 (as claimed): whenever the engine takes the rescale branch, the size it
\* re-renders with is at most the pointSize and at least 8.
C16_RescaleShrinks ==
    (eng.state = "done" /\ ~eng.raised /\ eng.measure.rescaled) =>
       /\ eng.measure.new_size <= eng.font_size
       /\ eng.measure.new_size >= 8

\* C16 (amended): the size of the re-render is at least 8; it is at most the
\* pointSize when the pointSize is at least 8, and exactly 8 when the pointSize
\* is below 8.
C16_RescaleBounds ==
    (eng.state = "done" /\ ~eng.raised /\ eng.measure.rescaled) =>
       /\ eng.measure.new_size >= 8
       /\ eng.font_size >= 8 => eng.measure.new_size <= eng.font_size
       /\ eng.font_size < 8 => eng.measure.new_size = 8

\* a glyph wider than a canvas of 16 or more has been re-rendered at a size
\* between the floor and the pointSize
C16_Witness ==
    /\ eng.state = "done" /\ ~eng.raised /\ eng.measure.rescaled
    /\ eng.font_size >= 16
    /\ eng.measure.new_size > 8
    /\ eng.measure.new_size < eng.font_size

\* the margins around the box a glyph was drawn in
Margins(e) ==
    [left |-> e.at.x + e.measure.bbox[1],
     right |-> e.font_size - (e.at.x + e.measure.bbox[3]),
     top |-> e.at.y + e.measure.bbox[2],
     bottom |-> e.font_size - (e.at.y + e.measure.bbox[4])]

\* C17: a glyph whose bounding box is narrower and lower than the canvas is
\* drawn with its box inside the canvas and with left/right and top/bottom
\* margins that differ by at most one pixel, whatever the box's own offset.
C17_Centering ==
    (/\ eng.state = "done" /\ ~eng.raised
     /\ eng.measure.bbox[3] - eng.measure.bbox[1] < eng.font_size
     /\ eng.measure.bbox[4] - eng.measure.bbox[2] < eng.font_size) =>
       LET mg == Margins(eng)
       IN  /\ mg.left >= 0 /\ mg.right >= 0 /\ mg.top >= 0 /\ mg.bottom >= 0
           /\ mg.right - mg.left \in {0, 1}
           /\ mg.bottom - mg.top \in {0, 1}

\* a glyph that starts left of the origin has been centred in the canvas
C17_Witness ==
    /\ eng.state = "done" /\ ~eng.raised
    /\ eng.measure.bbox[1] < 0
    /\ eng.measure.bbox[3] - eng.measure.bbox[1] < eng.font_size
    /\ eng.measure.bbox[4] - eng.measure.bbox[2] < eng.font_size
    /\ eng.measure.bbox[3] - eng.measure.bbox[1] > 0
    /\ Margins(eng).left > 0

\* C18: the partitions of the cache are always among "16", "24", "32", and a
\* request with an unsupported size works on size 16: it hits what the
\* partition "16" held, returns size-16 bitmaps, leaves its characters in the
\* partition "16" and the other partitions as they were.
C18_SizeNormalized ==
    /\ \A k \in DOMAIN FONT_CACHE :
          FONT_CACHE[k].key \in {CacheKey(size) : size \in SupportedSizes}
    /\ \A t \in Threads : th[t].op = "get" => th[t].size = 16
    /\ response.kind = "csv" =>
         /\ response.size = 16
         /\ HitsBefore(response) \subseteq response.hits
         /\ \A n \in DOMAIN response.rows :
               response.rows[n].bytes =
                  ServerGlyph(16, response.rows[n].char).bytes
         /\ HasKey(FONT_CACHE, "16")
         /\ CharsOf(response.text)
               \subseteq DOMAIN heap[GetItem(FONT_CACHE, "16")]
         /\ "32" \in DOMAIN initCache =>
               /\ HasKey(FONT_CACHE, "32")
               /\ heap[GetItem(FONT_CACHE, "32")] = initCache["32"]

\* a request with an unsupported size has hit an entry of the partition "16"
\* and added another one to it, beside a partition "32"
C18_Witness ==
    /\ response.kind = "csv"
    /\ HitsBefore(response) # {}
    /\ response.calls # <<>>
    /\ "32" \in DOMAIN initCache

\* C19: a request with an empty text goes no further than its rejection: the
\* step that takes a get request either starts a handler on a non-empty text
\* or answers 400 and leaves the cache, its partitions and the engine's call
\* counts as they were.
C19_EmptyRejected ==
    [][budget'.get < budget.get =>
         IF \E t \in Threads : th'[t].op = "get" /\ th[t].op # "get"
         THEN \A t \in Threads :
                 (th'[t].op = "get" /\ th[t].op # "get") =>
                    th'[t].chars_to_process # <<>>
         ELSE /\ response'.kind = "error" /\ response'.status = 400
              /\ \A t \in Threads : th'[t].pc = "idle"
              /\ FONT_CACHE' = FONT_CACHE
              /\ heap' = heap
              /\ engineCalls' = engineCalls]_vars

\* a request with an empty text has been rejected while the cache held entries
C19_Witness ==
    /\ response.kind = "error"
    /\ response.op = "get"
    /\ response.status = 400
    /\ FONT_CACHE # <<>>
    /\ \E k \in Keys : engineCalls[k] = 1

====
